---- MODULE Spec2Model ----
(***************************************************************************)
(* Lamport-clock distributed lock of src/process.c.                         *)
(*                                                                         *)
(* Every peer runs a main thread (run_instructions: do_request / do_wait)  *)
(* and one conn_reader thread per accepted connection.  Each protocol      *)
(* message travels on a connection of its own (send_short), so the reader  *)
(* threads of one peer run concurrently with each other and with the main  *)
(* thread.  One step of the model is one mutex-protected operation of the  *)
(* code (lc_m, queue_m, ack_m, rel_m) or one send.                          *)
(***************************************************************************)
EXTENDS Integers, Sequences, FiniteSets, TLC

\* ------------------------------------------------------------------ bounds
MaxN == 2          \* largest peer count N read from the input file
MaxCmds == 3       \* most command lines (Lock / Wait) in the input file
MaxLiveCmds == 2   \* the same, for the runs checked for liveness
MaxUnitTs == 2     \* largest timestamp in the inputs of the single-call runs

\* ------------------------------------------------------- program constants
MAX_PEERS == 128
Sentinel == -1000000000

VARIABLES
    N,              \* peer count (first line of the input file)
    pc,             \* pc[p]: position of peer p's main thread
    left,           \* command lines of the input file not yet read by their peer
    lc,             \* lc[p]: Lamport clock
    queue,          \* queue[p]: request list, head first
    ack_lc,         \* ack_lc[p]: last ack clock per peer
    releases_seen,  \* releases_seen[p]: release counters
    my_req_lc,      \* my_req_lc[p]: local of do_request
    rel_l,          \* rel_l[p]: local of do_request
    bi,             \* bi[p]: loop index of broadcast_short
    other_pid,      \* other_pid[p]: argument of do_wait
    seen,           \* seen[p]: local of do_wait
    conns,          \* accepted connections, one reader thread each
    dropped,        \* some line was sent but never processed
    last,           \* record of the last single call made in UnitSpec
    srv,            \* srv[p]: server_thread of p has bound its port and listens
    con,            \* con[p]: loop index i of connector_thread
    hist            \* hist[p]: what p has done so far (history, not program state)

vars == <<N, pc, left, lc, queue, ack_lc, releases_seen, my_req_lc, rel_l, bi,
          other_pid, seen, conns, dropped, last, srv, con, hist>>

Peers == 0 .. (N - 1)

\* ------------------------------------------------------------ Lamport clock
IncLc(clock) == clock + 1

\* variant: the test written with > (a timestamp equal to the clock is not
\* stepped over)
UpdateLcStrict(clock, remote_lc) ==
    IF remote_lc > clock THEN remote_lc + 1 ELSE clock

UpdateLcOnReceive(clock, remote_lc) ==
    IF remote_lc >= clock THEN remote_lc + 1 ELSE clock

\* ------------------------------------------------------------ request queue
ReqEntry(req_lc, req_pid) == [req_lc |-> req_lc, req_pid |-> req_pid]

\* variant: the walk compares timestamps only (no tie-break on the pid)
InsertPosNoTie(q, req_lc, req_pid) ==
    LET stop == { k \in 1 .. Len(q) : ~ (q[k].req_lc < req_lc) }
    IN  IF stop = {} THEN Len(q) + 1
        ELSE CHOOSE k \in stop : \A j \in stop : k <= j

\* the walk of queue_insert: skip every entry ordered before the new key
InsertPos(q, req_lc, req_pid) ==
    LET stop == { k \in 1 .. Len(q) :
                    ~ (\/ q[k].req_lc < req_lc
                       \/ (q[k].req_lc = req_lc /\ q[k].req_pid < req_pid)) }
    IN  IF stop = {} THEN Len(q) + 1
        ELSE CHOOSE k \in stop : \A j \in stop : k <= j

QueueInsert(q, req_lc, req_pid) ==
    LET k == InsertPos(q, req_lc, req_pid)
    IN  SubSeq(q, 1, k - 1) \o <<ReqEntry(req_lc, req_pid)>> \o SubSeq(q, k, Len(q))

\* variant: the head is unlinked, whatever its key
QueueRemoveHead(q, req_lc, req_pid) ==
    IF Len(q) = 0 THEN q ELSE Tail(q)

\* variant: the loop without its break (every matching entry is unlinked)
QueueRemoveAll(q, req_lc, req_pid) ==
    SelectSeq(q, LAMBDA e : ~ (e.req_lc = req_lc /\ e.req_pid = req_pid))

QueueRemove(q, req_lc, req_pid) ==
    LET hit == { k \in 1 .. Len(q) :
                    q[k].req_lc = req_lc /\ q[k].req_pid = req_pid }
    IN  IF hit = {} THEN q
        ELSE LET k == CHOOSE i \in hit : \A j \in hit : i <= j
             IN  SubSeq(q, 1, k - 1) \o SubSeq(q, k + 1, Len(q))

QueueHeadIs(q, req_lc, req_pid) ==
    /\ Len(q) > 0
    /\ q[1].req_lc = req_lc
    /\ q[1].req_pid = req_pid

\* ---------------------------------------------------------------- ack table
\* ack_lc and releases_seen are int[MAX_PEERS]; a table is kept as a function
\* on the slots 0 .. N-1 plus every other slot that was ever written.
Slot(tab, i) == IF i \in DOMAIN tab THEN tab[i] ELSE 0

Store(tab, i, v) == [j \in (DOMAIN tab) \cup {i} |-> IF j = i THEN v ELSE tab[j]]

\* variant: the entry keeps the larger of its old value and the new one
SetAckMax(acks, from, value) ==
    IF from < 0 \/ from >= MAX_PEERS THEN acks
    ELSE Store(acks, from, IF Slot(acks, from) > value THEN Slot(acks, from) ELSE value)

SetAck(acks, from, value) ==
    IF from < 0 \/ from >= MAX_PEERS THEN acks ELSE Store(acks, from, value)

\* variant: one entry at or above the target is enough
AllAcksSome(acks, n, target_lc) ==
    \E i \in 0 .. (n - 1) : Slot(acks, i) >= target_lc

\* variant: the comparison written with <= (an ack equal to the target fails)
AllAcksGt(acks, n, target_lc) ==
    \A i \in 0 .. (n - 1) : Slot(acks, i) > target_lc

AllAcksGe(acks, n, target_lc) ==
    \A i \in 0 .. (n - 1) : Slot(acks, i) >= target_lc

\* variant: the reset without the self-ack
AckResetNoSelf(acks, n, self, own_lc) ==
    [j \in (DOMAIN acks) \cup (0 .. (n - 1)) |->
        IF j \in 0 .. (n - 1) THEN Sentinel ELSE acks[j]]

AckReset(acks, n, self, own_lc) ==
    LET cleared == [j \in (DOMAIN acks) \cup (0 .. (n - 1)) |->
                      IF j \in 0 .. (n - 1) THEN Sentinel ELSE acks[j]]
    IN  Store(cleared, self, own_lc)

\* ------------------------------------------------------------ release table
\* variant: the counter is set to one instead of being incremented
IncReleaseSeenOnce(rel, pid) ==
    IF pid < 0 \/ pid >= MAX_PEERS THEN rel ELSE Store(rel, pid, 1)

IncReleaseSeen(rel, pid) ==
    IF pid < 0 \/ pid >= MAX_PEERS THEN rel ELSE Store(rel, pid, Slot(rel, pid) + 1)

GetReleaseSeen(rel, pid) ==
    IF pid < 0 \/ pid >= MAX_PEERS THEN 0 ELSE Slot(rel, pid)

\* ------------------------------------------------------------ wire messages
\* A line as sscanf("%15s %d %d %d %d") sees it: the first word and the
\* integers that follow it (at most four are read).
Line(type, f) == [type |-> type, f |-> f]

ReqLine(ts, pid) == Line("REQ", <<ts, pid>>)

\* variant: the ACK names the acknowledging peer where the requester belongs
AckLineToSelf(ack_l, from, for_lc, for_pid) == Line("ACK", <<ack_l, from, for_lc, from>>)

AckLine(ack_l, from, for_lc, for_pid) == Line("ACK", <<ack_l, from, for_lc, for_pid>>)

\* variant: the REL carries the release clock where the request's timestamp
\* belongs
RelLineClock(rel_lc, req_lc, req_pid) == Line("REL", <<rel_lc, rel_lc, req_pid>>)

RelLine(rel_lc, req_lc, req_pid) == Line("REL", <<rel_lc, req_lc, req_pid>>)

\* values an int left unassigned by sscanf may hold
Garbage == {-1, 0, 1, 2}

\* number of integers process_line reads for a line type
Used(type) ==
    CASE type = "REQ" -> 2
      [] type = "ACK" -> 4
      [] type = "REL" -> 3
      [] OTHER -> 0

\* the values of a, b, c, d that process_line works with after sscanf
Scan(line) ==
    LET F(k) == IF k > Used(line.type) THEN {0}
                ELSE IF k <= Len(line.f) THEN {line.f[k]}
                ELSE Garbage
    IN  F(1) \X F(2) \X F(3) \X F(4)

\* a connection accepted by server_thread, with its conn_reader thread:
\* the lines still to read, and the position inside process_line
Conn(at, lines) == [at |-> at, lines |-> lines, step |-> 0,
                    a |-> 0, b |-> 0, c |-> 0, d |-> 0]

Listening(p) == p \in Peers /\ srv[p] /\ pc[p] # "exited"

\* send_short(pid, msg): the connections and the loss flag after the call
SendConns(cs, pid, line) ==
    IF pid < 0 \/ pid >= N THEN cs
    ELSE IF Listening(pid) THEN cs \cup {Conn(pid, <<line>>)}
    ELSE cs

SendDropped(dr, pid) ==
    IF pid < 0 \/ pid >= N THEN dr
    ELSE IF Listening(pid) THEN dr
    ELSE TRUE

\* broadcast_short: the first index at or after i that is not my_pid
NextTarget(p, i) ==
    LET rest == { j \in i .. (N - 1) : j # p }
    IN  IF rest = {} THEN N ELSE CHOOSE j \in rest : \A k \in rest : j <= k

\* one iteration of the loop of broadcast_short that sends; the loop ends,
\* and the caller goes on at `after`, when no target is left
BroadcastStep(p, line, after) ==
    LET i == NextTarget(p, bi[p])
    IN  /\ conns' = SendConns(conns, i, line)
        /\ dropped' = SendDropped(dropped, i)
        /\ IF NextTarget(p, i + 1) >= N
           THEN /\ bi' = [bi EXCEPT ![p] = 0]
                /\ pc' = [pc EXCEPT ![p] = after]
           ELSE /\ bi' = [bi EXCEPT ![p] = i + 1]
                /\ pc' = pc

\* ================================================================ main thread
\* Positions of the main thread:
\*   "boot"      main, before pthread_create(&con, ...)
\*   "idle"      run_instructions, between two commands for this peer
\*   "insert" "reset" "bcast" "head" "acks" "crit"
\*   "rel_lc" "rel_bcast" "rel_inc"          inside do_request
\*   "poll" "ret"                             inside do_wait
\*   "linger"    after run_instructions (sleep(1) of main)
\*   "exited"    the process has returned from main

mainVars == <<my_req_lc, rel_l, bi, other_pid, seen>>

\* run_instructions reads "<my_pid> Lock"; do_request: my_req_lc = inc_lc()
ReqTick(p) ==
    /\ pc[p] = "idle"
    /\ left > 0
    /\ left' = left - 1
    /\ lc' = [lc EXCEPT ![p] = IncLc(@)]
    /\ my_req_lc' = [my_req_lc EXCEPT ![p] = IncLc(lc[p])]
    /\ pc' = [pc EXCEPT ![p] = "insert"]
    /\ hist' = [hist EXCEPT ![p].reqs = @ + 1]
    /\ UNCHANGED <<N, srv, con, queue, ack_lc, releases_seen, rel_l, bi,
                   other_pid, seen, conns, dropped, last>>

\* queue_insert(my_req_lc, my_pid)
ReqInsert(p) ==
    /\ pc[p] = "insert"
    /\ queue' = [queue EXCEPT ![p] = QueueInsert(@, my_req_lc[p], p)]
    /\ pc' = [pc EXCEPT ![p] = "reset"]
    /\ UNCHANGED <<N, srv, con, hist, left, lc, ack_lc, releases_seen, mainVars, conns,
                   dropped, last>>

\* the reset of the ack table under ack_m, with the self-ack
ReqReset(p) ==
    /\ pc[p] = "reset"
    /\ ack_lc' = [ack_lc EXCEPT ![p] = AckReset(@, N, p, my_req_lc[p])]
    /\ pc' = [pc EXCEPT ![p] = "bcast"]
    /\ UNCHANGED <<N, srv, con, hist, left, lc, queue, releases_seen, mainVars, conns,
                   dropped, last>>

\* broadcast_short("REQ <my_req_lc> <my_pid>")
ReqBroadcast(p) ==
    /\ pc[p] = "bcast"
    /\ BroadcastStep(p, ReqLine(my_req_lc[p], p), "head")
    /\ UNCHANGED <<N, srv, con, hist, left, lc, queue, ack_lc, releases_seen, my_req_lc,
                   rel_l, other_pid, seen, last>>

\* wait loop: if (!queue_head_is(my_req_lc, my_pid)) continue;
\* a failed test leaves the thread where it is
WaitHead(p) ==
    /\ pc[p] = "head"
    /\ QueueHeadIs(queue[p], my_req_lc[p], p)
    /\ pc' = [pc EXCEPT ![p] = "acks"]
    /\ UNCHANGED <<N, srv, con, hist, left, lc, queue, ack_lc, releases_seen, mainVars,
                   conns, dropped, last>>

\* wait loop: if (all_acks_ge(my_req_lc)) break;  otherwise next iteration
WaitAcks(p) ==
    /\ pc[p] = "acks"
    /\ pc' = [pc EXCEPT ![p] =
                IF AllAcksGe(ack_lc[p], N, my_req_lc[p]) THEN "crit" ELSE "head"]
    /\ UNCHANGED <<N, srv, con, hist, left, lc, queue, ack_lc, releases_seen, mainVars,
                   conns, dropped, last>>

\* variant: do_request returns as soon as ./critical has, without removing
\* its entry and without the release
RelRemoveReturn(p) ==
    /\ pc[p] = "crit"
    /\ pc' = [pc EXCEPT ![p] = "idle"]
    /\ hist' = [hist EXCEPT ![p].crits = @ + 1]
    /\ UNCHANGED <<N, srv, con, left, lc, queue, ack_lc, releases_seen,
                   mainVars, conns, dropped, last>>

\* system("./critical ...") returns; queue_remove(my_req_lc, my_pid)
RelRemove(p) ==
    /\ pc[p] = "crit"
    /\ queue' = [queue EXCEPT ![p] = QueueRemove(@, my_req_lc[p], p)]
    /\ pc' = [pc EXCEPT ![p] = "rel_lc"]
    /\ hist' = [hist EXCEPT ![p].crits = @ + 1]
    /\ UNCHANGED <<N, srv, con, left, lc, ack_lc, releases_seen, mainVars, conns,
                   dropped, last>>

\* rel_l = inc_lc()
RelTick(p) ==
    /\ pc[p] = "rel_lc"
    /\ lc' = [lc EXCEPT ![p] = IncLc(@)]
    /\ rel_l' = [rel_l EXCEPT ![p] = IncLc(lc[p])]
    /\ pc' = [pc EXCEPT ![p] = "rel_bcast"]
    /\ UNCHANGED <<N, srv, con, hist, left, queue, ack_lc, releases_seen, my_req_lc, bi,
                   other_pid, seen, conns, dropped, last>>

\* broadcast_short("REL <rel_l> <my_req_lc> <my_pid>")
RelBroadcast(p) ==
    /\ pc[p] = "rel_bcast"
    /\ BroadcastStep(p, RelLine(rel_l[p], my_req_lc[p], p), "rel_inc")
    /\ hist' = [hist EXCEPT ![p].rels = IF pc'[p] = "rel_inc" THEN @ + 1 ELSE @]
    /\ UNCHANGED <<N, srv, con, left, lc, queue, ack_lc, releases_seen, my_req_lc,
                   rel_l, other_pid, seen, last>>

\* inc_release_seen(my_pid); return to run_instructions (the locals die)
RelInc(p) ==
    /\ pc[p] = "rel_inc"
    /\ releases_seen' = [releases_seen EXCEPT ![p] = IncReleaseSeen(@, p)]
    /\ my_req_lc' = [my_req_lc EXCEPT ![p] = 0]
    /\ rel_l' = [rel_l EXCEPT ![p] = 0]
    /\ pc' = [pc EXCEPT ![p] = "idle"]
    /\ UNCHANGED <<N, srv, con, hist, left, lc, queue, ack_lc, bi, other_pid, seen, conns,
                   dropped, last>>

\* run_instructions reads "<my_pid> Wait <q>"; do_wait: seen = get_release_seen(q)
WaitSnap(p, q) ==
    /\ pc[p] = "idle"
    /\ left > 0
    /\ left' = left - 1
    /\ other_pid' = [other_pid EXCEPT ![p] = q]
    /\ seen' = [seen EXCEPT ![p] = GetReleaseSeen(releases_seen[p], q)]
    /\ pc' = [pc EXCEPT ![p] = "poll"]
    /\ UNCHANGED <<N, srv, con, hist, lc, queue, ack_lc, releases_seen, my_req_lc, rel_l, bi,
                   conns, dropped, last>>

\* variant: the test written with >=
WaitOverOrEqual(now, snapshot) == now >= snapshot

\* the test of the loop of do_wait
WaitOver(now, snapshot) == now > snapshot

\* do_wait: now = get_release_seen(other_pid); if (now > seen) break;
WaitPoll(p) ==
    /\ pc[p] = "poll"
    /\ WaitOver(GetReleaseSeen(releases_seen[p], other_pid[p]), seen[p])
    /\ pc' = [pc EXCEPT ![p] = "ret"]
    /\ UNCHANGED <<N, srv, con, hist, left, lc, queue, ack_lc, releases_seen, mainVars,
                   conns, dropped, last>>

\* do_wait returns to run_instructions (the locals die)
WaitReturn(p) ==
    /\ pc[p] = "ret"
    /\ other_pid' = [other_pid EXCEPT ![p] = 0]
    /\ seen' = [seen EXCEPT ![p] = 0]
    /\ pc' = [pc EXCEPT ![p] = "idle"]
    /\ UNCHANGED <<N, srv, con, hist, left, lc, queue, ack_lc, releases_seen, my_req_lc,
                   rel_l, bi, conns, dropped, last>>

\* getline finds no further command for this peer: run_instructions returns
ScriptEnd(p) ==
    /\ pc[p] = "idle"
    /\ pc' = [pc EXCEPT ![p] = "linger"]
    /\ UNCHANGED <<N, srv, con, hist, left, lc, queue, ack_lc, releases_seen, mainVars, conns,
                   dropped, last>>

\* main returns after sleep(1): the process and all its reader threads end;
\* lines its readers had not finished processing are lost
Exit(p) ==
    /\ pc[p] = "linger"
    /\ pc' = [pc EXCEPT ![p] = "exited"]
    /\ conns' = { cn \in conns : cn.at # p }
    /\ dropped' = (dropped \/ \E cn \in conns : cn.at = p)
    /\ UNCHANGED <<N, srv, con, hist, left, lc, queue, ack_lc, releases_seen, mainVars, last>>

\* ============================================================ reader threads
\* conn_reader: fgets returned the first of cn.lines; process_line works on it.
\* step 0: sscanf, dispatch on the type and the first locked operation;
\* steps 1, 2: the locked operations that follow.

Cur(cn) == Head(cn.lines)

\* process_line has returned: the loop of conn_reader reads the next line,
\* and at end of input the thread ends
LineDone(cs, cn) ==
    (cs \ {cn}) \cup
        (IF Len(cn.lines) > 1 THEN {Conn(cn.at, Tail(cn.lines))} ELSE {})

At(cs, cn, n, v) ==
    (cs \ {cn}) \cup {[cn EXCEPT !.step = n, !.a = v[1], !.b = v[2],
                                 !.c = v[3], !.d = v[4]]}

Known(type) == type \in {"HELLO", "REQ", "ACK", "REL"}

\* sscanf reads no word (return), HELLO, or a word no branch matches
OnOther(cn) ==
    /\ cn.step = 0
    /\ Cur(cn).type \notin {"REQ", "ACK", "REL"}
    /\ conns' = LineDone(conns, cn)
    /\ UNCHANGED <<N, srv, con, hist, pc, left, lc, queue, ack_lc, releases_seen, mainVars,
                   dropped, last>>

\* REQ: update_lc_on_receive(req_lc)
OnReq(cn) ==
    /\ cn.step = 0
    /\ Cur(cn).type = "REQ"
    /\ \E v \in Scan(Cur(cn)) :
          /\ lc' = [lc EXCEPT ![cn.at] = UpdateLcOnReceive(@, v[1])]
          /\ conns' = At(conns, cn, 1, v)
    /\ UNCHANGED <<N, srv, con, hist, pc, left, queue, ack_lc, releases_seen, mainVars,
                   dropped, last>>

\* REQ: queue_insert(req_lc, req_pid)
OnReqInsert(cn) ==
    /\ cn.step = 1
    /\ Cur(cn).type = "REQ"
    /\ queue' = [queue EXCEPT ![cn.at] = QueueInsert(@, cn.a, cn.b)]
    /\ conns' = At(conns, cn, 2, <<cn.a, cn.b, cn.c, cn.d>>)
    /\ UNCHANGED <<N, srv, con, hist, pc, left, lc, ack_lc, releases_seen, mainVars,
                   dropped, last>>

\* the clock value the ACK carries
AckClock(clock) == IncLc(clock)

\* REQ: mylc = inc_lc(); send_short(req_pid, "ACK mylc my_pid req_lc req_pid")
OnReqAck(cn) ==
    /\ cn.step = 2
    /\ Cur(cn).type = "REQ"
    /\ lc' = [lc EXCEPT ![cn.at] = IncLc(@)]
    /\ conns' = SendConns(LineDone(conns, cn), cn.b,
                          AckLine(AckClock(lc[cn.at]), cn.at, cn.a, cn.b))
    /\ dropped' = SendDropped(dropped, cn.b)
    /\ UNCHANGED <<N, srv, con, hist, pc, left, queue, ack_lc, releases_seen, mainVars, last>>

\* ACK: update_lc_on_receive(ack_l)
OnAck(cn) ==
    /\ cn.step = 0
    /\ Cur(cn).type = "ACK"
    /\ \E v \in Scan(Cur(cn)) :
          /\ lc' = [lc EXCEPT ![cn.at] = UpdateLcOnReceive(@, v[1])]
          /\ conns' = At(conns, cn, 1, v)
    /\ UNCHANGED <<N, srv, con, hist, pc, left, queue, ack_lc, releases_seen, mainVars,
                   dropped, last>>

\* ACK: if (for_req_pid == my_pid) set_ack(from, ack_l)
OnAckSet(cn) ==
    /\ cn.step = 1
    /\ Cur(cn).type = "ACK"
    /\ ack_lc' = [ack_lc EXCEPT ![cn.at] =
                    IF cn.d = cn.at THEN SetAck(@, cn.b, cn.a) ELSE @]
    /\ conns' = LineDone(conns, cn)
    /\ UNCHANGED <<N, srv, con, hist, pc, left, lc, queue, releases_seen, mainVars,
                   dropped, last>>

\* REL: update_lc_on_receive(rel_lc)
OnRel(cn) ==
    /\ cn.step = 0
    /\ Cur(cn).type = "REL"
    /\ \E v \in Scan(Cur(cn)) :
          /\ lc' = [lc EXCEPT ![cn.at] = UpdateLcOnReceive(@, v[1])]
          /\ conns' = At(conns, cn, 1, v)
    /\ UNCHANGED <<N, srv, con, hist, pc, left, queue, ack_lc, releases_seen, mainVars,
                   dropped, last>>

\* REL: queue_remove(req_lc, req_pid)
OnRelRemove(cn) ==
    /\ cn.step = 1
    /\ Cur(cn).type = "REL"
    /\ queue' = [queue EXCEPT ![cn.at] = QueueRemove(@, cn.b, cn.c)]
    /\ conns' = At(conns, cn, 2, <<cn.a, cn.b, cn.c, cn.d>>)
    /\ hist' = [hist EXCEPT ![cn.at].released = @ \cup {ReqEntry(cn.b, cn.c)}]
    /\ UNCHANGED <<N, srv, con, pc, left, lc, ack_lc, releases_seen, mainVars,
                   dropped, last>>

\* REL: inc_release_seen(req_pid)
OnRelInc(cn) ==
    /\ cn.step = 2
    /\ Cur(cn).type = "REL"
    /\ releases_seen' = [releases_seen EXCEPT ![cn.at] = IncReleaseSeen(@, cn.c)]
    /\ conns' = LineDone(conns, cn)
    /\ UNCHANGED <<N, srv, con, hist, pc, left, lc, queue, ack_lc, mainVars, dropped, last>>

\* ============================================================= specification
NoCall == [op |-> "none"]

\* history of a process that has done nothing yet: timestamps taken by
\* do_request, critical sections left, REL broadcasts finished, and the keys
\* of the REL lines whose queue_remove this process has performed
NoHist == [reqs |-> 0, crits |-> 0, rels |-> 0, released |-> {}]

\* main has read N and zeroed releases_seen; the globals are zero-initialised;
\* every server listens and every connector_thread has finished
InitWith(cmds) ==
    /\ N \in 1 .. MaxN
    /\ pc = [p \in Peers |-> "idle"]
    /\ left = cmds
    /\ lc = [p \in Peers |-> 0]
    /\ queue = [p \in Peers |-> <<>>]
    /\ ack_lc = [p \in Peers |-> [i \in Peers |-> 0]]
    /\ releases_seen = [p \in Peers |-> [i \in Peers |-> 0]]
    /\ my_req_lc = [p \in Peers |-> 0]
    /\ rel_l = [p \in Peers |-> 0]
    /\ bi = [p \in Peers |-> 0]
    /\ other_pid = [p \in Peers |-> 0]
    /\ seen = [p \in Peers |-> 0]
    /\ conns = {}
    /\ dropped = FALSE
    /\ last = NoCall
    /\ srv = [p \in Peers |-> TRUE]
    /\ con = [p \in Peers |-> N]
    /\ hist = [p \in Peers |-> NoHist]

Init == InitWith(MaxCmds)

Main(p) ==
    \/ ReqTick(p)
    \/ ReqInsert(p)
    \/ ReqReset(p)
    \/ ReqBroadcast(p)
    \/ WaitHead(p)
    \/ WaitAcks(p)
    \/ RelRemove(p)
    \/ RelTick(p)
    \/ RelBroadcast(p)
    \/ RelInc(p)
    \/ \E q \in Peers : WaitSnap(p, q)
    \/ WaitPoll(p)
    \/ WaitReturn(p)
    \/ ScriptEnd(p)
    \/ Exit(p)

Reader(cn) ==
    \/ OnReq(cn)
    \/ OnReqInsert(cn)
    \/ OnReqAck(cn)
    \/ OnAck(cn)
    \/ OnAckSet(cn)
    \/ OnRel(cn)
    \/ OnRelRemove(cn)
    \/ OnRelInc(cn)

\* every step of Main(p) and of Reader(cn), listed action by action
Next ==
    \/ \E p \in Peers : ReqTick(p)
    \/ \E p \in Peers : ReqInsert(p)
    \/ \E p \in Peers : ReqReset(p)
    \/ \E p \in Peers : ReqBroadcast(p)
    \/ \E p \in Peers : WaitHead(p)
    \/ \E p \in Peers : WaitAcks(p)
    \/ \E p \in Peers : RelRemove(p)
    \/ \E p \in Peers : RelTick(p)
    \/ \E p \in Peers : RelBroadcast(p)
    \/ \E p \in Peers : RelInc(p)
    \/ \E p \in Peers : \E q \in Peers : WaitSnap(p, q)
    \/ \E p \in Peers : WaitPoll(p)
    \/ \E p \in Peers : WaitReturn(p)
    \/ \E p \in Peers : ScriptEnd(p)
    \/ \E p \in Peers : Exit(p)
    \/ \E cn \in conns : OnReq(cn)
    \/ \E cn \in conns : OnReqInsert(cn)
    \/ \E cn \in conns : OnReqAck(cn)
    \/ \E cn \in conns : OnAck(cn)
    \/ \E cn \in conns : OnAckSet(cn)
    \/ \E cn \in conns : OnRel(cn)
    \/ \E cn \in conns : OnRelRemove(cn)
    \/ \E cn \in conns : OnRelInc(cn)

Spec == Init /\ [][Next]_vars

\* The scheduler lets every thread that can run eventually run: the main
\* thread of each process and the reader threads of each process.
Fairness ==
    \A p \in 0 .. (MaxN - 1) :
        /\ WF_vars(p \in Peers /\ Main(p))
        /\ WF_vars(\E cn \in conns : cn.at = p /\ Reader(cn))

FairSpec == InitWith(MaxLiveCmds) /\ [][Next]_vars /\ Fairness

\* ================================================================== start-up
\* BootSpec starts where main has created server_thread (line 384): no server
\* listens yet and no connector_thread exists.  A process that run_local has
\* not forked yet looks the same to its peers.

\* server_thread: bind and listen have succeeded, accept is reached
ServerListen(p) ==
    /\ pc[p] # "exited"
    /\ ~ srv[p]
    /\ srv' = [srv EXCEPT ![p] = TRUE]
    /\ UNCHANGED <<N, pc, left, lc, queue, ack_lc, releases_seen, mainVars,
                   conns, dropped, last, con, hist>>

\* main: pthread_create(&con, NULL, connector_thread, NULL), and the call
\* of run_instructions that follows it
StartConnector(p) ==
    /\ pc[p] = "boot"
    /\ pc' = [pc EXCEPT ![p] = "idle"]
    /\ con' = [con EXCEPT ![p] = 0]
    /\ UNCHANGED <<N, left, lc, queue, ack_lc, releases_seen, mainVars,
                   conns, dropped, last, srv, hist>>

HelloLine(p) == Line("HELLO", <<p>>)

\* connector_thread: the loop over i; a connect() that succeeds sends HELLO
\* and moves on to the next peer, one that fails is retried after usleep
\* (the thread stays where it is)
Connect(p) ==
    /\ pc[p] \notin {"boot", "exited"}
    /\ con[p] < N
    /\ LET i == NextTarget(p, con[p])
       IN  IF i >= N
           THEN /\ con' = [con EXCEPT ![p] = N]
                /\ conns' = conns
           ELSE /\ Listening(i)
                /\ conns' = conns \cup {Conn(i, <<HelloLine(p)>>)}
                /\ con' = [con EXCEPT ![p] = i + 1]
    /\ UNCHANGED <<N, pc, left, lc, queue, ack_lc, releases_seen, mainVars,
                   dropped, last, srv, hist>>

BootInit ==
    /\ N \in 1 .. MaxN
    /\ pc = [p \in Peers |-> "boot"]
    /\ left = MaxLiveCmds
    /\ lc = [p \in Peers |-> 0]
    /\ queue = [p \in Peers |-> <<>>]
    /\ ack_lc = [p \in Peers |-> [i \in Peers |-> 0]]
    /\ releases_seen = [p \in Peers |-> [i \in Peers |-> 0]]
    /\ my_req_lc = [p \in Peers |-> 0]
    /\ rel_l = [p \in Peers |-> 0]
    /\ bi = [p \in Peers |-> 0]
    /\ other_pid = [p \in Peers |-> 0]
    /\ seen = [p \in Peers |-> 0]
    /\ conns = {}
    /\ dropped = FALSE
    /\ last = NoCall
    /\ srv = [p \in Peers |-> FALSE]
    /\ con = [p \in Peers |-> 0]
    /\ hist = [p \in Peers |-> NoHist]

BootNext ==
    \/ \E p \in Peers : ServerListen(p)
    \/ \E p \in Peers : StartConnector(p)
    \/ \E p \in Peers : Connect(p)
    \/ \E cn \in conns : OnOther(cn)
    \/ Next

BootSpec == BootInit /\ [][BootNext]_vars

\* ============================================== single calls on one process
\* UnitSpec drives the structures of one process directly: one
\* queue_insert / queue_remove pair, or one connection whose lines come from
\* outside the protocol (any client may connect to the listening port).

UnitTs == 0 .. MaxUnitTs
UnitPids == 0 .. (MaxN - 1)
UnitKeys == { ReqEntry(t, i) : t \in 1 .. MaxUnitTs, i \in UnitPids }

\* request lists as queue_insert builds them: ascending, equal keys adjacent
UnitQueues ==
    { QueueInsert(QueueInsert(<<>>, k1.req_lc, k1.req_pid), k2.req_lc, k2.req_pid) :
        k1 \in UnitKeys, k2 \in UnitKeys }
    \cup { <<k>> : k \in UnitKeys } \cup { <<>> }

Prefixes(f) == { SubSeq(f, 1, n) : n \in 0 .. Len(f) }

\* lines a connection may carry: the protocol's lines, the same cut short,
\* HELLO, a word process_line does not know, and a blank line
UnitLines ==
    { Line("REQ", g) : g \in UNION { Prefixes(<<t, i>>) : t \in UnitTs, i \in UnitPids } }
    \cup { Line("ACK", g) : g \in UNION { Prefixes(<<t, i, 1, j>>) :
                                  t \in {MaxUnitTs}, i \in UnitPids, j \in UnitPids } }
    \cup { Line("REL", g) : g \in UNION { Prefixes(<<MaxUnitTs, t, i>>) :
                                  t \in 1 .. MaxUnitTs, i \in UnitPids } }
    \cup { Line("HELLO", <<0>>), Line("PING", <<>>), Line("", <<>>) }

\* a line the grammar does not allow: unknown word, or too few integers
Malformed(line) ==
    \/ ~ Known(line.type)
    \/ Len(line.f) < Used(line.type)

UnitConns ==
    { <<l>> : l \in UnitLines }
    \cup { <<l1, l2>> : l1 \in { l \in UnitLines : Malformed(l) },
                        l2 \in { ReqLine(MaxUnitTs, 0), RelLine(MaxUnitTs, 1, 0) } }
    \cup { <<AckLine(MaxUnitTs, i, 1, j1), AckLine(1, i, 1, j2)>> :
                        i \in UnitPids, j1 \in UnitPids, j2 \in UnitPids }

UnitInit ==
    /\ N \in 1 .. MaxN
    /\ pc = [p \in Peers |-> "idle"]
    /\ left = 0
    /\ \E c \in UnitTs : lc = [p \in Peers |-> c]
    /\ \E q \in UnitQueues : queue = [p \in Peers |-> q]
    /\ ack_lc = [p \in Peers |-> [i \in Peers |-> 0]]
    /\ releases_seen = [p \in Peers |-> [i \in Peers |-> 0]]
    /\ my_req_lc = [p \in Peers |-> 0]
    /\ rel_l = [p \in Peers |-> 0]
    /\ bi = [p \in Peers |-> 0]
    /\ other_pid = [p \in Peers |-> 0]
    /\ seen = [p \in Peers |-> 0]
    /\ conns = {}
    /\ dropped = FALSE
    /\ last = NoCall
    /\ srv = [p \in Peers |-> TRUE]
    /\ con = [p \in Peers |-> N]
    /\ hist = [p \in Peers |-> NoHist]

\* queue_insert(k) called on the list of process p
UInsert(p, k) ==
    /\ last = NoCall
    /\ queue' = [queue EXCEPT ![p] = QueueInsert(@, k.req_lc, k.req_pid)]
    /\ last' = [op |-> "insert", at |-> p, key |-> k, before |-> queue[p]]
    /\ UNCHANGED <<N, srv, con, hist, pc, left, lc, ack_lc, releases_seen, mainVars, conns,
                   dropped>>

\* queue_remove of the key just inserted
URemove(p) ==
    /\ last.op = "insert"
    /\ last.at = p
    /\ queue' = [queue EXCEPT ![p] = QueueRemove(@, last.key.req_lc, last.key.req_pid)]
    /\ last' = [last EXCEPT !.op = "roundtrip"]
    /\ UNCHANGED <<N, srv, con, hist, pc, left, lc, ack_lc, releases_seen, mainVars, conns,
                   dropped>>

\* server_thread accepts a connection carrying `lines` and starts its reader
UAccept(p, lines) ==
    /\ last = NoCall
    /\ conns' = {Conn(p, lines)}
    /\ last' = [op |-> "conn", at |-> p, lines |-> lines,
                lc |-> lc[p], queue |-> queue[p], ack_lc |-> ack_lc[p],
                releases_seen |-> releases_seen[p]]
    /\ UNCHANGED <<N, srv, con, hist, pc, left, lc, queue, ack_lc, releases_seen, mainVars,
                   dropped>>

UnitNext ==
    \/ \E p \in Peers : \E k \in UnitKeys : UInsert(p, k)
    \/ \E p \in Peers : URemove(p)
    \/ \E p \in Peers : \E lines \in UnitConns : UAccept(p, lines)
    \/ \E cn \in conns : OnOther(cn)
    \/ \E cn \in conns : OnReq(cn)
    \/ \E cn \in conns : OnReqInsert(cn)
    \/ \E cn \in conns : OnReqAck(cn)
    \/ \E cn \in conns : OnAck(cn)
    \/ \E cn \in conns : OnAckSet(cn)
    \/ \E cn \in conns : OnRel(cn)
    \/ \E cn \in conns : OnRelRemove(cn)
    \/ \E cn \in conns : OnRelInc(cn)

UnitSpec == UnitInit /\ [][UnitNext]_vars

\* ===================================================================== claims
Granted(p) == pc[p] = "crit"

\* p has taken the timestamp of its request and has not been granted yet
Pending(p) == pc[p] \in {"insert", "reset", "bcast", "head", "acks"}

KeyLess(l1, p1, l2, p2) == l1 < l2 \/ (l1 = l2 /\ p1 < p2)

\* C1: mutual exclusion - at most one peer is in the GRANTED/execute phase
\* of do_request at any time.
C1_MutualExclusion ==
    \A p1 \in Peers : \A p2 \in Peers :
        (Granted(p1) /\ Granted(p2)) => p1 = p2

\* C2: total grant order - a request is never granted while another peer's
\* request with a smaller (timestamp, peerId) key has already taken its
\* timestamp and has not been granted yet.
C2_GrantOrder ==
    [][\A p2 \in Peers :
         (pc[p2] = "acks" /\ pc'[p2] = "crit") =>
            \A p1 \in Peers \ {p2} :
               Pending(p1) =>
                  ~ KeyLess(my_req_lc[p1], p1, my_req_lc[p2], p2)]_vars

\* C3: liveness - with every sent line processed (none lost) and fair
\* scheduling of all threads, every request that has taken its timestamp in
\* do_request is eventually granted.
C3_Liveness ==
    \A p \in 0 .. (MaxN - 1) :
        (p \in Peers /\ Pending(p)) ~> ((p \in Peers /\ Granted(p)) \/ dropped)

\* C3 witness: a request was granted although another peer had requested
\* before it, with no line lost.
C3_Witness ==
    \E p \in Peers :
        /\ Granted(p)
        /\ ~ dropped
        /\ \E q \in Peers \ {p} : GetReleaseSeen(releases_seen[p], q) >= 1

\* C4: grant condition - at the step that takes a peer from the wait loop
\* to GRANTED its request is the head of its queue and every one of the N
\* ack entries is at least the request's timestamp.
C4_GrantCondition ==
    [][\A p \in Peers :
         (pc[p] = "acks" /\ pc'[p] = "crit") =>
            /\ QueueHeadIs(queue[p], my_req_lc[p], p)
            /\ AllAcksGe(ack_lc[p], N, my_req_lc[p])]_vars

\* cn's reader performs update_lc_on_receive in this step
Observes(cn) ==
    /\ cn.step = 0
    /\ Cur(cn).type \in {"REQ", "ACK", "REL"}
    /\ cn \notin conns'
    /\ pc' = pc

\* C5: clock monotonicity - the clock of a peer never decreases; every
\* tick (inc_lc) returns a value strictly greater than the clock before it;
\* observe(x) leaves the clock unchanged when x < clock and sets it to
\* x + 1 when x >= clock.
C5_ClockMonotonic ==
    [][/\ \A p \in Peers : lc'[p] >= lc[p]
       /\ \A p \in Peers :
             /\ (pc[p] = "idle" /\ pc'[p] = "insert") =>
                    (my_req_lc'[p] > lc[p] /\ lc'[p] = my_req_lc'[p])
             /\ (pc[p] = "rel_lc" /\ pc'[p] = "rel_bcast") =>
                    (rel_l'[p] > lc[p] /\ lc'[p] = rel_l'[p])
       /\ \A cn \in conns :
             /\ (cn.step = 2 /\ Cur(cn).type = "REQ" /\ cn \notin conns' /\ pc' = pc) =>
                    /\ lc'[cn.at] > lc[cn.at]
                    /\ \A m \in conns' \ conns :
                          Cur(m).type = "ACK" => Cur(m).f[1] = lc'[cn.at]
             /\ Observes(cn) =>
                    LET x == Cur(cn).f[1]
                    IN  /\ x < lc[cn.at] => lc'[cn.at] = lc[cn.at]
                        /\ x >= lc[cn.at] => lc'[cn.at] = x + 1]_vars

\* C5 witness: one reader has just observed a timestamp that moved the clock
\* to x + 1, another a timestamp below the clock, and a tick has been taken.
C5_Witness ==
    \E c1 \in conns : \E c2 \in conns :
        /\ c1.step = 1 /\ lc[c1.at] = c1.a + 1
        /\ c2.step = 1 /\ lc[c2.at] > c2.a + 1
        /\ \E p \in Peers : pc[p] = "insert" /\ my_req_lc[p] = lc[p]

\* C8: right after the reset at the start of do_request (every entry the
\* sentinel, the own entry the request's timestamp T), all_acks_ge(T) is
\* false when N > 1 and true when N = 1.
C8_ResetSemantics ==
    \A p \in Peers :
        pc[p] = "bcast" =>
            (AllAcksGe(ack_lc[p], N, my_req_lc[p]) <=> (N = 1))

\* C8 witness: the reset of a second request, whose table held the acks of
\* the first, with other peers present.
C8_Witness ==
    \E p \in Peers :
        /\ pc[p] = "bcast"
        /\ N > 1
        /\ GetReleaseSeen(releases_seen[p], p) >= 1

EntriesOf(q, pid) == { k \in 1 .. Len(q) : q[k].req_pid = pid }

\* C6: at every peer the request queue holds at most one entry per peerId.
C6_OneEntryPerPeer ==
    \A p \in Peers : \A q \in Peers :
        Cardinality(EntriesOf(queue[p], q)) <= 1

\* C9: do_wait(q) returns only when the release counter of q is strictly
\* greater than the snapshot taken when the call began.
C9_WaitForNextRelease ==
    \A p \in Peers :
        pc[p] = "ret" =>
            GetReleaseSeen(releases_seen[p], other_pid[p]) > seen[p]

\* C9 witness: a do_wait returns although releases of the awaited peer had
\* been counted before the call.
C9_Witness ==
    \E p \in Peers :
        /\ pc[p] = "ret"
        /\ seen[p] >= 1
        /\ GetReleaseSeen(releases_seen[p], other_pid[p]) > seen[p]

\* C7: queue round trip - queue_insert(ts, pid) followed by
\* queue_remove(ts, pid) leaves exactly the previous contents and order,
\* also when the list already held an entry with that key.
C7_RoundTrip ==
    last.op = "roundtrip" => queue[last.at] = last.before

\* C7 witness: a round trip on a list that already holds the key, among
\* other entries.
C7_Witness ==
    /\ last.op = "roundtrip"
    /\ Len(last.before) >= 2
    /\ \E k \in 1 .. Len(last.before) : last.before[k] = last.key
    /\ \E k \in 1 .. Len(last.before) : last.before[k] # last.key

\* C10: a malformed line (unknown word, or REQ / ACK / REL with too few
\* integers) changes neither clock, queue, ack table nor release table and
\* sends nothing.
C10_MalformedDropped ==
    (last.op = "conn" /\ Len(last.lines) = 1 /\ Malformed(last.lines[1])) =>
        /\ lc[last.at] = last.lc
        /\ queue[last.at] = last.queue
        /\ ack_lc[last.at] = last.ack_lc
        /\ releases_seen[last.at] = last.releases_seen
        /\ \A cn \in conns : cn.at = last.at /\ cn.lines = last.lines
        /\ ~ dropped

\* p has sent HELLO to every other peer
HelloDone(p) == \A i \in Peers \ {p} : i < con[p]

\* C11: bootstrap precedes protocol traffic - a peer is inside a script
\* command (do_request or do_wait) only after its connector_thread has
\* connected and sent HELLO to every other peer.
C11_BootstrapFirst ==
    \A p \in Peers :
        pc[p] \notin {"boot", "idle", "linger", "exited"} => HelloDone(p)

\* C12: a peer waiting on itself unblocks - a do_wait(my_pid) that has taken
\* its snapshot eventually returns.
C12_WaitOnSelfReturns ==
    \A p \in 0 .. (MaxN - 1) :
        (p \in Peers /\ pc[p] = "poll" /\ other_pid[p] = p)
            ~> (p \in Peers /\ pc[p] = "ret")

\* p is inside do_request and has not finished broadcasting its REL
Outstanding(p) ==
    pc[p] \in {"insert", "reset", "bcast", "head", "acks", "crit", "rel_lc",
               "rel_bcast"}

\* C13: one outstanding request per peer - the timestamps a peer has taken
\* exceed the REL broadcasts it has finished by at most one, and by one
\* exactly while it is between taking a timestamp and the end of that
\* request's REL broadcast: a new timestamp is never taken before the REL
\* of the previous request has been broadcast.
C13_OneOutstanding ==
    \A p \in Peers :
        /\ hist[p].reqs - hist[p].rels \in {0, 1}
        /\ (hist[p].reqs - hist[p].rels = 1) <=> Outstanding(p)

\* C13 witness: a peer is waiting for the grant of its second request after
\* the REL of its first was broadcast to another peer.
C13_Witness ==
    \E p \in Peers :
        /\ N > 1
        /\ pc[p] = "head"
        /\ hist[p].reqs = 2
        /\ hist[p].rels = 1

\* the reader of cn takes this step
Steps(cn) == cn \notin conns' /\ pc' = pc

\* m is what is left of a connection whose reader has finished a line
Rest(m) ==
    \E c \in conns \ conns' :
        c.at = m.at /\ Len(c.lines) > 1 /\ m.lines = Tail(c.lines)

\* connections opened in this step
Opened == { m \in conns' \ conns : m.step = 0 /\ ~ Rest(m) }

\* C14: unconditional acknowledgment - a reader that processes a REQ(ts, pid)
\* sends nothing while it observes the timestamp, then inserts (ts, pid) in
\* the queue, and then, with the queue left alone, opens exactly one
\* connection: to pid, carrying ACK(ackTs, self, ts, pid) with ackTs > ts;
\* nothing in this depends on the position of the peer's main thread.
C14_UnconditionalAck ==
    [][\A cn \in conns :
         (Cur(cn).type = "REQ" /\ Steps(cn)) =>
            LET ts == Cur(cn).f[1]
                pid == Cur(cn).f[2]
                me == cn.at
            IN  /\ cn.step = 0 => (Opened = {} /\ queue' = queue)
                /\ cn.step = 1 =>
                      /\ Opened = {}
                      /\ Len(queue'[me]) = Len(queue[me]) + 1
                      /\ \E k \in 1 .. Len(queue'[me]) :
                            /\ queue'[me][k] = ReqEntry(ts, pid)
                            /\ SubSeq(queue'[me], 1, k - 1) = SubSeq(queue[me], 1, k - 1)
                            /\ SubSeq(queue'[me], k + 1, Len(queue'[me]))
                                  = SubSeq(queue[me], k, Len(queue[me]))
                /\ cn.step = 2 =>
                      /\ queue' = queue
                      /\ \E ackTs \in (ts + 1) .. lc'[me] :
                            Opened = {Conn(pid, <<Line("ACK", <<ackTs, me, ts, pid>>)>>)}]_vars

\* C14 witness: an ACK is in flight for a request later than the own,
\* granted request of the peer that sent it from inside its critical section
\* (no tick since the ACK's).
C14_Witness ==
    \E m \in conns :
        /\ m.step = 0
        /\ Cur(m).type = "ACK"
        /\ LET from == Cur(m).f[2]
           IN  /\ pc[from] = "crit"
               /\ lc[from] = Cur(m).f[1]
               /\ my_req_lc[from] < Cur(m).f[3]
               /\ QueueHeadIs(queue[from], my_req_lc[from], from)

\* C15: ACK frame condition - a reader that processes a well-formed
\* ACK(ackTs, from, forTs, forPid) never changes the queue or the release
\* table and sends nothing; with forPid # self the ack table is unchanged
\* too (only the clock may move, in the observe step); with forPid = self
\* the step after observe writes ackTs into entry `from`, whatever its old
\* value, and leaves every other entry.
C15_AckFrame ==
    [][\A cn \in conns :
         (Cur(cn).type = "ACK" /\ Len(Cur(cn).f) = 4 /\ Steps(cn)) =>
            LET ackTs == Cur(cn).f[1]
                from == Cur(cn).f[2]
                forPid == Cur(cn).f[4]
                me == cn.at
            IN  /\ queue' = queue
                /\ releases_seen' = releases_seen
                /\ Opened = {}
                /\ \A p \in Peers \ {me} : ack_lc'[p] = ack_lc[p] /\ lc'[p] = lc[p]
                /\ cn.step = 0 => ack_lc' = ack_lc
                /\ cn.step = 1 =>
                      /\ lc' = lc
                      /\ forPid # me => ack_lc' = ack_lc
                      /\ forPid = me =>
                            ack_lc'[me] = [j \in (DOMAIN ack_lc[me]) \cup {from} |->
                                             IF j = from THEN ackTs ELSE ack_lc[me][j]]]_vars

\* C15 witness: the second of two ACKs from one peer, both addressed to
\* self, has replaced the larger clock of the first by its smaller one.
C15_Witness ==
    /\ last.op = "conn"
    /\ conns = {}
    /\ Len(last.lines) = 2
    /\ last.lines[1].type = "ACK" /\ last.lines[2].type = "ACK"
    /\ last.lines[1].f[4] = last.at /\ last.lines[2].f[4] = last.at
    /\ last.lines[1].f[2] = last.lines[2].f[2]
    /\ last.lines[2].f[1] < last.lines[1].f[1]
    /\ Slot(ack_lc[last.at], last.lines[2].f[2]) = last.lines[2].f[1]

\* REL lines naming p whose handler at q has reached inc_release_seen and
\* finished it: those whose queue_remove is done, less those still between
\* the two calls
RelProcessed(q, p) ==
    Cardinality({ k \in hist[q].released : k.req_pid = p })
      - Cardinality({ cn \in conns :
                        /\ cn.at = q /\ cn.step = 2
                        /\ Cur(cn).type = "REL" /\ cn.c = p })

\* releases q has completed itself: critical sections left, less the one
\* whose release (lines 317-321) is still under way
OwnReleases(q) ==
    hist[q].crits - (IF pc[q] \in {"rel_lc", "rel_bcast", "rel_inc"} THEN 1 ELSE 0)

ReleaseCount(q, p) ==
    RelProcessed(q, p) + (IF p = q THEN OwnReleases(q) ELSE 0)

\* C16: the release table is a monotonic count - at every peer q that has
\* not exited, for every peer p, releases_seen[p] never decreases, equals the number of REL lines
\* naming p that q has processed (plus q's own completed releases when
\* p = q; so it is 0 before any), and never exceeds the number of critical
\* sections p has completed.
C16_ReleaseCount ==
    [][\A q \in Peers : \A p \in Peers :
         /\ GetReleaseSeen(releases_seen'[q], p) >= GetReleaseSeen(releases_seen[q], p)
         /\ pc[q] # "exited" =>
               GetReleaseSeen(releases_seen[q], p) = ReleaseCount(q, p)
         /\ pc'[q] # "exited" =>
               GetReleaseSeen(releases_seen'[q], p) = ReleaseCount(q, p)'
         /\ GetReleaseSeen(releases_seen'[q], p) <= hist'[p].crits]_vars

\* C16 witness: a peer has counted two releases of another peer and one of
\* its own.
C16_Witness ==
    \E q \in Peers : \E p \in Peers \ {q} :
        /\ GetReleaseSeen(releases_seen[q], p) = 2
        /\ GetReleaseSeen(releases_seen[q], q) = 1

Holds(q, key) == \E k \in 1 .. Len(q) : q[k] = key

\* C17: request lifecycle on release - when a reader at q performs the
\* queue_remove of REL(relTs, reqTs, p), the entry (reqTs, p) is in q's queue
\* just before and not just after, and no key whose REL q has handled is in
\* q's queue afterwards.
C17_ReleaseLifecycle ==
    [][/\ \A cn \in conns :
            (Cur(cn).type = "REL" /\ cn.step = 1 /\ Steps(cn)) =>
                /\ Holds(queue[cn.at], ReqEntry(Cur(cn).f[2], Cur(cn).f[3]))
                /\ ~ Holds(queue'[cn.at], ReqEntry(Cur(cn).f[2], Cur(cn).f[3]))
       /\ \A q \in Peers : \A key \in hist'[q].released :
            ~ Holds(queue'[q], key)]_vars

\* C17 witness: a peer has handled the REL of another peer's first request
\* and holds that peer's second request in its queue, behind its own.
C17_Witness ==
    \E q \in Peers : \E p \in Peers \ {q} :
        /\ \E key \in hist[q].released : key.req_pid = p
        /\ Len(queue[q]) = 2
        /\ queue[q][2].req_pid = p
        /\ queue[q][1].req_pid = q

\* C18: queue ordering - at every peer the request queue is strictly
\* ascending by (timestamp, then pid), so no key occurs twice, and for every
\* entry queue_head_is is true exactly when no other entry has a smaller
\* key.
C18_QueueOrdered ==
    \A p \in Peers :
        /\ \A k \in 1 .. (Len(queue[p]) - 1) :
              KeyLess(queue[p][k].req_lc, queue[p][k].req_pid,
                      queue[p][k + 1].req_lc, queue[p][k + 1].req_pid)
        /\ \A k \in 1 .. Len(queue[p]) :
              QueueHeadIs(queue[p], queue[p][k].req_lc, queue[p][k].req_pid)
                <=> \A j \in 1 .. Len(queue[p]) :
                       ~ KeyLess(queue[p][j].req_lc, queue[p][j].req_pid,
                                 queue[p][k].req_lc, queue[p][k].req_pid)

\* C18 witness: a queue holds two requests with the same timestamp, the
\* peer's own one first although the other was inserted before it.
C18_Witness ==
    \E p \in Peers :
        /\ pc[p] = "reset"
        /\ Len(queue[p]) = 2
        /\ queue[p][1].req_lc = queue[p][2].req_lc
        /\ queue[p][1].req_pid = p

\* C19: no stale ACK is recorded - whenever a reader records an ACK in the
\* ack table (set_ack for an ACK addressed to self), the peer has a request
\* outstanding whose table reset is done and which is not granted yet, and
\* the ACK's forTs is that request's timestamp.
C19_NoStaleAck ==
    [][\A cn \in conns :
         (/\ Cur(cn).type = "ACK" /\ cn.step = 1 /\ Steps(cn)
          /\ Cur(cn).f[4] = cn.at) =>
            /\ pc[cn.at] \in {"bcast", "head", "acks"}
            /\ Cur(cn).f[3] = my_req_lc[cn.at]]_vars

\* C19 witness: a peer waiting for the grant of its second request has
\* recorded the other peer's ACK for it.
C19_Witness ==
    \E p \in Peers : \E q \in Peers \ {p} :
        /\ hist[p].reqs = 2
        /\ pc[p] \in {"head", "acks"}
        /\ Slot(ack_lc[p], q) > my_req_lc[p]

\* no peer is inside do_request, no line is in flight or being processed,
\* and none was lost
Quiet ==
    /\ conns = {}
    /\ ~ dropped
    /\ \A p \in Peers : pc[p] \in {"idle", "poll", "ret", "linger", "exited"}

\* C20: quiescence leaves no residue - with no line lost, once every Lock
\* command begun has completed and every REQ, ACK and REL sent has been
\* processed, the request queue of every peer is empty.
C20_NoResidue ==
    Quiet => \A p \in Peers : queue[p] = <<>>

\* C20 witness: all is quiet after two peers have each completed a Lock and
\* one of them a second one.
C20_Witness ==
    /\ Quiet
    /\ \A p \in Peers : pc[p] = "linger"
    /\ \E p \in Peers : \E q \in Peers \ {p} :
          hist[p].crits = 2 /\ hist[q].crits = 1

====
